---- MODULE Spec2Model ----
(***************************************************************************)
(* Toolpath parsing, layer aggregation, rasterisation and cylinder         *)
(* validation of the whistle workspace scripts                             *)
(* (validate_gcode_geometry.py, visualize_gcode_cli.py,                    *)
(* analyze_stl_views.py).                                                  *)
(*                                                                         *)
(* Numbers.  Lengths are integers counting hundredths of a millimetre      *)
(* (X1 is 100, Z.04 is 4).  Angles are integers counting hundredths of a   *)
(* degree.  A line of the motion stream is a tuple of one-character        *)
(* strings, so that strip, split, startswith, the regular expression       *)
(* search and float are computed on the characters as the scripts compute  *)
(* them.                                                                   *)
(***************************************************************************)
EXTENDS Integers, Sequences, FiniteSets, TLC

(***************************************************************************)
(* Bounds of the model.                                                    *)
(***************************************************************************)
\* number of lines of a motion stream
MaxLines == 2
\* number of points handed to a rasterizer
MaxPts == 2
\* number of points of a layer handed to the gap detection
MaxGapPts == 3
\* number of positions handed to check_geometry_issues
MaxGeomPts == 7
\* number of layers of a stream handed to main of visualize_gcode_cli
MaxLayers == 17
\* number of heights on the command line of visualize_gcode_cli
MaxHeights == 1

(***************************************************************************)
(* Characters and the string operations of the parsers.                    *)
(***************************************************************************)
DigitVal ==
  [c \in {"0", "1", "2", "3", "4", "5", "6", "7", "8", "9"} |->
     CASE c = "0" -> 0 [] c = "1" -> 1 [] c = "2" -> 2 [] c = "3" -> 3
       [] c = "4" -> 4 [] c = "5" -> 5 [] c = "6" -> 6 [] c = "7" -> 7
       [] c = "8" -> 8 [] c = "9" -> 9]

IsDigit(c) == c \in DOMAIN DigitVal

\* the character class [-\d.] of the coordinate patterns
NumClass(c) == IsDigit(c) \/ c = "-" \/ c = "."

\* s[i..] and s[..i]
Drop(s, n) == SubSeq(s, n + 1, Len(s))
Take(s, n) == SubSeq(s, 1, n)

\* str.strip(): white space removed at both ends
RECURSIVE LStrip(_)
LStrip(s) == IF s # <<>> /\ Head(s) = " " THEN LStrip(Tail(s)) ELSE s

RECURSIVE RStrip(_)
RStrip(s) ==
  IF s # <<>> /\ s[Len(s)] = " " THEN RStrip(Take(s, Len(s) - 1)) ELSE s

strip(s) == RStrip(LStrip(s))

\* str.split(';')[0]: the text before the first ';'
RECURSIVE BeforeSemicolon(_)
BeforeSemicolon(s) ==
  IF s = <<>> \/ Head(s) = ";" THEN <<>>
  ELSE <<Head(s)>> \o BeforeSemicolon(Tail(s))

\* str.startswith(p)
startswith(s, p) == Len(s) >= Len(p) /\ Take(s, Len(p)) = p

\* 'E' in line
Contains(s, c) == \E i \in 1..Len(s) : s[i] = c

\* the longest run of class characters at the head of s
RECURSIVE NumRun(_)
NumRun(s) ==
  IF s # <<>> /\ NumClass(Head(s)) THEN <<Head(s)>> \o NumRun(Tail(s))
  ELSE <<>>

\* re.search(letter + r'([-\d.]+)', s): group(1) of the leftmost match, or
\* <<>> when there is no match (a match captures at least one character)
RECURSIVE re_search(_, _)
re_search(letter, s) ==
  IF Len(s) < 2 THEN <<>>
  ELSE IF Head(s) = letter /\ NumClass(s[2]) THEN NumRun(Tail(s))
  ELSE re_search(letter, Tail(s))

(***************************************************************************)
(* float(text) for a text of the class [-\d.]: an optional sign, digits    *)
(* with at most one point and at least one digit.  Anything else raises    *)
(* ValueError.  The value is in hundredths; the model's texts have at most *)
(* two decimals.                                                           *)
(***************************************************************************)
Unsigned(s) == IF s # <<>> /\ Head(s) = "-" THEN Tail(s) ELSE s

CountOf(s, c) == Cardinality({i \in 1..Len(s) : s[i] = c})

float_ok(s) ==
  LET u == Unsigned(s)
  IN  /\ \A i \in 1..Len(u) : IsDigit(u[i]) \/ u[i] = "."
      /\ CountOf(u, ".") <= 1
      /\ \E i \in 1..Len(u) : IsDigit(u[i])

RECURSIVE DigitsVal(_, _)
DigitsVal(s, acc) ==
  IF s = <<>> THEN acc ELSE DigitsVal(Tail(s), 10 * acc + DigitVal[Head(s)])

PointAt(u) ==
  IF CountOf(u, ".") = 0 THEN Len(u) + 1
  ELSE CHOOSE i \in 1..Len(u) : u[i] = "."

float_val(s) ==
  LET u    == Unsigned(s)
      p    == PointAt(u)
      ip   == Take(u, p - 1)
      fp   == Drop(u, p)
      frac == IF Len(fp) = 0 THEN 0
              ELSE IF Len(fp) = 1 THEN 10 * DigitsVal(fp, 0)
              ELSE DigitsVal(Take(fp, 2), 0)
      mag  == 100 * DigitsVal(ip, 0) + frac
  IN  IF s # <<>> /\ Head(s) = "-" THEN 0 - mag ELSE mag

(***************************************************************************)
(* round(z, 1) of visualize_gcode_cli.parse_gcode, on hundredths.  Python  *)
(* rounds the binary double correctly: a value that is no decimal tie      *)
(* goes to the nearest tenth, the exactly representable ties (x.25, x.75)  *)
(* go to the even tenth, and a tie the double only approximates goes the   *)
(* way its double lies (0.05 -> 0.1, 0.15 -> 0.1, 0.35 -> 0.3).            *)
(***************************************************************************)
Abs(n) == IF n < 0 THEN 0 - n ELSE n

\* the inexact ties below 3.00 whose double lies above the tie
TieDoubleAbove == {5, 45, 55, 65, 105, 135, 155, 185, 235, 245, 285, 295}

round1_mag(h) ==
  LET q == h \div 10
      r == h % 10
  IN  IF r < 5 THEN 10 * q
      ELSE IF r > 5 THEN 10 * (q + 1)
      ELSE IF h % 50 = 25 THEN (IF q % 2 = 0 THEN 10 * q ELSE 10 * (q + 1))
      ELSE IF h \in TieDoubleAbove THEN 10 * (q + 1)
      ELSE 10 * q

round1(h) == IF h < 0 THEN 0 - round1_mag(0 - h) ELSE round1_mag(h)

(***************************************************************************)
(* The motion streams of the model: lines as the files hold them.          *)
(***************************************************************************)
Moves ==
  { cmd \o xyz \o e :
      cmd \in { <<"G", "0">>, <<"G", "1">> },
      xyz \in { <<>>,
                <<" ", "X", "1">>,
                <<" ", "Y", "-", "2">>,
                <<" ", "Z", ".", "0", "4">>,
                <<" ", "X", "7", " ", "Z", "0", ".", "0", "6">> },
      e   \in { <<>>, <<" ", "E", "1">> } }

OtherLines ==
  { <<>>,
    <<";", "G", "1", " ", "X", "9", " ", "E", "1">>,
    <<"M", "1", "0", "4", " ", "S", "2", "0", "0">>,
    <<"G", "9", "2", " ", "E", "0">>,
    <<"G", "1", "0", " ", "X", "3", " ", "E", "1">>,
    <<"G", "1", " ", "X", "-", " ", "E", "1">>,
    <<"G", "0", " ", "Y", "1", ".", "2", ".", "3">>,
    <<"G", "1", " ", "Z", "-", "-", "5", " ", "E", "1">>,
    <<"G", "1", " ", "X", "1", " ", ";", "E", "1">>,
    <<" ", "G", "1", " ", "Y", "5", ".", " ", "Z", "1", " ", "E", "1", " ">> }

Lines == Moves \union OtherLines

(***************************************************************************)
(* State.                                                                  *)
(***************************************************************************)
VARIABLES
  stream,             \* the lines of the file read so far
  status,             \* parse_gcode_detailed: "reading", "returned", "raised"
  current_pos,        \* parse_gcode_detailed: the MotionState
  positions,          \* parse_gcode_detailed: the recorded Positions
  lstatus,            \* parse_gcode: "reading", "returned", "raised"
  lcurrent_pos,       \* parse_gcode: the MotionState
  positions_by_layer, \* parse_gcode: z_key -> list of (X, Y)
  lrecorded           \* parse_gcode: log of the MotionStates it appended

parserVars ==
  <<stream, status, current_pos, positions,
    lstatus, lcurrent_pos, positions_by_layer, lrecorded>>

VARIABLES
  rpoints,            \* rasterizers: the points of the call, (x, y, z) each
  rfn,                \* rasterizers: the function called, "none" before
  rres                \* rasterizers: what the call gave

rasterVars == <<rpoints, rfn, rres>>

VARIABLES
  gpositions,         \* check_geometry_issues: the positions of the call
  gres                \* check_geometry_issues: what the call gave

geomVars == <<gpositions, gres>>

VARIABLES
  target_z,           \* main of visualize_gcode_cli: the heights it picked
  shown               \* main of visualize_gcode_cli: the layers it has shown

mainVars == <<target_z, shown>>

vars == <<parserVars, rasterVars, geomVars, mainVars>>

(***************************************************************************)
(* One line of the parse loops.                                            *)
(***************************************************************************)
\* faulty variant of CleanLine: the comment is kept
CleanLineKeepsComment(raw) == strip(raw)

\* line.strip().split(';')[0]
CleanLine(raw) == BeforeSemicolon(strip(raw))

IsMove(line) ==
  startswith(line, <<"G", "0">>) \/ startswith(line, <<"G", "1">>)

\* the three searches of a G0/G1 line
Matches(line) ==
  [X |-> re_search("X", line), Y |-> re_search("Y", line),
   Z |-> re_search("Z", line)]

\* float() raises ValueError on one of the matched texts
FloatRaises(line) ==
  \E a \in {"X", "Y", "Z"} :
     Matches(line)[a] # <<>> /\ ~float_ok(Matches(line)[a])

\* faulty variant of Updated: an ordinate the line does not name is reset to 0
UpdatedNotSticky(pos, line) ==
  [a \in {"X", "Y", "Z"} |->
     IF Matches(line)[a] # <<>> THEN float_val(Matches(line)[a]) ELSE 0]

\* current_pos after the ordinate updates of a G0/G1 line
Updated(pos, line) ==
  [a \in {"X", "Y", "Z"} |->
     IF Matches(line)[a] # <<>> THEN float_val(Matches(line)[a]) ELSE pos[a]]

\* line.startswith('G1') and 'E' in line
IsRecorded(line) == startswith(line, <<"G", "1">>) /\ Contains(line, "E")

\* faulty variant of DetailedLine: the Position is the MotionState from
\* before the ordinate updates of the line
DetailedLineBefore(st, raw) ==
  LET line == CleanLine(raw)
  IN  IF line = <<>> THEN st
      ELSE IF IsMove(line) /\ FloatRaises(line)
        THEN [st EXCEPT !.status = "raised"]
      ELSE
        [status |-> "reading",
         pos    |-> IF IsMove(line) THEN Updated(st.pos, line) ELSE st.pos,
         out    |-> IF IsRecorded(line)
                      THEN Append(st.out,
                                  <<st.pos["X"], st.pos["Y"], st.pos["Z"]>>)
                      ELSE st.out]

\* the body of the loop of parse_gcode_detailed on one raw line
DetailedLine(st, raw) ==
  LET line == CleanLine(raw)
  IN  IF line = <<>> THEN st
      ELSE IF IsMove(line) /\ FloatRaises(line)
        THEN [st EXCEPT !.status = "raised"]
      ELSE
        LET pos == IF IsMove(line) THEN Updated(st.pos, line) ELSE st.pos
        IN  [status |-> "reading",
             pos    |-> pos,
             out    |-> IF IsRecorded(line)
                          THEN Append(st.out, <<pos["X"], pos["Y"], pos["Z"]>>)
                          ELSE st.out]

\* faulty variant of BucketAppend: the bucket is replaced, not appended to
BucketAppendReplace(layers, key, xy) ==
  [k \in DOMAIN layers \union {key} |->
     IF k = key THEN <<xy>> ELSE layers[k]]

\* positions_by_layer[z_key].append(xy) on a defaultdict(list)
BucketAppend(layers, key, xy) ==
  IF key \in DOMAIN layers
    THEN [layers EXCEPT ![key] = Append(@, xy)]
    ELSE [k \in DOMAIN layers \union {key} |->
            IF k = key THEN <<xy>> ELSE layers[k]]

\* the body of the loop of parse_gcode on one raw line
LayerLine(st, raw) ==
  LET line == CleanLine(raw)
  IN  IF line = <<>> \/ ~IsMove(line) THEN st
      ELSE IF FloatRaises(line) THEN [st EXCEPT !.status = "raised"]
      ELSE
        LET pos   == Updated(st.pos, line)
            z_key == round1(pos["Z"])
            rec   == startswith(line, <<"G", "1">>)
        IN  [status |-> "reading",
             pos    |-> pos,
             layers |-> IF rec
                          THEN BucketAppend(st.layers, z_key,
                                            <<pos["X"], pos["Y"]>>)
                          ELSE st.layers,
             log    |-> IF rec
                          THEN Append(st.log, <<pos["X"], pos["Y"], pos["Z"]>>)
                          ELSE st.log]

\* the loop of parse_gcode_detailed over the lines of a file, from the state
\* st; a raise ends it
RECURSIVE parse_gcode_detailed(_, _)
parse_gcode_detailed(st, lines) ==
  IF lines = <<>> \/ st.status = "raised" THEN st
  ELSE parse_gcode_detailed(DetailedLine(st, Head(lines)), Tail(lines))

\* the loop of parse_gcode over the lines of a file
RECURSIVE parse_gcode(_, _)
parse_gcode(st, lines) ==
  IF lines = <<>> \/ st.status = "raised" THEN st
  ELSE parse_gcode(LayerLine(st, Head(lines)), Tail(lines))

Origin == [a \in {"X", "Y", "Z"} |-> 0]

EmptyLayers == [k \in {} |-> <<>>]

ParserInit ==
  /\ stream = <<>>
  /\ status = "reading"
  /\ current_pos = Origin
  /\ positions = <<>>
  /\ lstatus = "reading"
  /\ lcurrent_pos = Origin
  /\ positions_by_layer = EmptyLayers
  /\ lrecorded = <<>>

\* the next line of the file reaches both parse loops, which run the same
\* conditions on it and so stop together
ReadBody(raw) ==
  /\ status = "reading" /\ lstatus = "reading"
  /\ stream' = Append(stream, raw)
  /\ LET d == DetailedLine([status |-> status, pos |-> current_pos,
                            out |-> positions], raw)
         l == LayerLine([status |-> lstatus, pos |-> lcurrent_pos,
                         layers |-> positions_by_layer, log |-> lrecorded],
                        raw)
     IN  /\ status' = d.status
         /\ current_pos' = d.pos
         /\ positions' = d.out
         /\ lstatus' = l.status
         /\ lcurrent_pos' = l.pos
         /\ positions_by_layer' = l.layers
         /\ lrecorded' = l.log

ReadLine(raw) ==
  /\ Len(stream) < MaxLines
  /\ ReadBody(raw)
  /\ UNCHANGED <<rasterVars, geomVars, mainVars>>

\* end of file: both loops end and the parsers return
CloseFile ==
  /\ status = "reading" /\ lstatus = "reading"
  /\ status' = "returned"
  /\ lstatus' = "returned"
  /\ UNCHANGED <<stream, current_pos, positions, lcurrent_pos,
                 positions_by_layer, lrecorded>>

RasterIdle == rpoints = <<>> /\ rfn = "none" /\ rres = [kind |-> "none"]

GeomIdle == gpositions = <<>> /\ gres = [kind |-> "none"]

MainIdle == target_z = [kind |-> "none"] /\ shown = <<>>

EndOfFile == CloseFile /\ UNCHANGED <<rasterVars, geomVars, mainVars>>

Init == ParserInit /\ RasterIdle /\ GeomIdle /\ MainIdle

Next ==
  \/ \E raw \in Lines : ReadLine(raw)
  \/ EndOfFile

Spec == Init /\ [][Next]_vars

(***************************************************************************)
(* The motion-stream format, as the claims about the parsers read it: the  *)
(* command of a line is the first word of its text before the comment, a   *)
(* token is a word that starts with its letter.                            *)
(***************************************************************************)
RECURSIVE FirstWord(_)
FirstWord(s) ==
  IF s = <<>> \/ Head(s) = " " THEN <<>>
  ELSE <<Head(s)>> \o FirstWord(Tail(s))

Command(raw) == FirstWord(strip(BeforeSemicolon(raw)))

HasToken(raw, letter) ==
  LET t == strip(BeforeSemicolon(raw))
  IN  \E i \in 2..Len(t) : t[i] = letter /\ t[i - 1] = " "

\* a deposition line: the opcode G1 with the deposition marker E
IsDepositionLine(raw) == Command(raw) = <<"G", "1">> /\ HasToken(raw, "E")

DepositionLines == {i \in 1..Len(stream) : IsDepositionLine(stream[i])}

\* the lines of the stream read so far that parse_gcode_detailed recorded
RecordedLines ==
  {i \in 1..Len(stream) :
     /\ IsRecorded(CleanLine(stream[i]))
     /\ ~(IsMove(CleanLine(stream[i])) /\ FloatRaises(CleanLine(stream[i])))}

\* the ordinates a line of the stream updates
UpdatedOrdinates(raw) ==
  IF IsMove(CleanLine(raw))
    THEN {a \in {"X", "Y", "Z"} : Matches(CleanLine(raw))[a] # <<>>}
    ELSE {}

Ordinate(p, a) == IF a = "X" THEN p[1] ELSE IF a = "Y" THEN p[2] ELSE p[3]

(***************************************************************************)
(* C1.  The number of positions parse_gcode_detailed returns equals the    *)
(* number of lines of the stream whose opcode is G1 and that carry the     *)
(* deposition marker E, whatever other lines lie between them.             *)
(* Violated: the parser takes every line that starts with the characters   *)
(* G1, G10 included.                                                       *)
(***************************************************************************)
C1_PositionsCountDepositionLines ==
  status = "returned" => Len(positions) = Cardinality(DepositionLines)

(***************************************************************************)
(* C2 as claimed.  When the line of a recorded Position updates only one   *)
(* ordinate, the other two ordinates of the Position equal those of the    *)
(* previously recorded Position, or 0 for the first Position.              *)
(* Violated: a G0 line (or a G1 line without E) between two recorded       *)
(* lines moves the MotionState without recording a Position.               *)
(***************************************************************************)
C2_StickyToPreviousPosition ==
  LET k == Len(positions)
  IN  (k >= 1 /\ Len(stream) \in RecordedLines) =>
        \A a \in {"X", "Y", "Z"} :
           UpdatedOrdinates(stream[Len(stream)]) = {a} =>
              \A b \in {"X", "Y", "Z"} \ {a} :
                 Ordinate(positions[k], b) =
                    IF k = 1 THEN 0 ELSE Ordinate(positions[k - 1], b)

(***************************************************************************)
(* C2 as amended.  When parse_gcode_detailed records a Position for a line *)
(* that updates only one ordinate, the other two ordinates of the Position *)
(* equal those of the MotionState just before the line.                    *)
(***************************************************************************)
C2_StickyStep ==
  (/\ Len(positions') = Len(positions) + 1
   /\ Cardinality(UpdatedOrdinates(stream'[Len(stream')])) = 1)
  => \A b \in {"X", "Y", "Z"} \ UpdatedOrdinates(stream'[Len(stream')]) :
        Ordinate(positions'[Len(positions')], b) = current_pos[b]

C2_StickyToMotionState == [][C2_StickyStep]_vars

\* the first Position, recorded for a line that sets only X, carries the Y
\* that a G0 line left in the MotionState
C2_Witness ==
  /\ Len(positions) = 1
  /\ Len(stream) \in RecordedLines
  /\ UpdatedOrdinates(stream[Len(stream)]) = {"X"}
  /\ positions[1][2] # 0

(***************************************************************************)
(* C3.  In parse_gcode every recorded position lies in exactly one bucket, *)
(* the one whose key is its Z rounded to one decimal, in parse order, and  *)
(* the bucket lengths sum to the number of recorded positions.             *)
(***************************************************************************)
RECURSIVE SumLen(_, _)
SumLen(f, keys) ==
  IF keys = {} THEN 0
  ELSE LET k == CHOOSE k \in keys : TRUE
       IN  Len(f[k]) + SumLen(f, keys \ {k})

\* the (X, Y) of the logged positions whose Z rounds to key, in order
RECURSIVE XYOfKey(_, _)
XYOfKey(log, key) ==
  IF log = <<>> THEN <<>>
  ELSE (IF round1(Head(log)[3]) = key
          THEN <<<<Head(log)[1], Head(log)[2]>>>> ELSE <<>>)
       \o XYOfKey(Tail(log), key)

C3_LayerBuckets ==
  /\ SumLen(positions_by_layer, DOMAIN positions_by_layer) = Len(lrecorded)
  /\ \A i \in 1..Len(lrecorded) :
        /\ round1(lrecorded[i][3]) \in DOMAIN positions_by_layer
        /\ round1(lrecorded[i][3]) % 10 = 0
        /\ Abs(round1(lrecorded[i][3]) - lrecorded[i][3]) <= 5
  /\ \A k \in DOMAIN positions_by_layer :
        positions_by_layer[k] = XYOfKey(lrecorded, k)

\* two layers, one of them holding a position whose Z is not the key itself
C3_Witness ==
  /\ lstatus = "returned"
  /\ Cardinality(DOMAIN positions_by_layer) = 2
  /\ \E i \in 1..Len(lrecorded) :
        lrecorded[i][3] # round1(lrecorded[i][3])

(***************************************************************************)
(* C10.  A malformed number in a coordinate token of a G0/G1 line (X-,     *)
(* Y1.2.3, Z--5) is treated as an absent ordinate: neither parser aborts.  *)
(* Violated: float() raises ValueError on the matched text and the parse   *)
(* ends there.                                                             *)
(***************************************************************************)
C10_NeverAborts == status # "raised" /\ lstatus # "raised"

(***************************************************************************)
(* C11.  A line whose command is neither G0 nor G1 (G10, G92, an M-code,   *)
(* free text) is ignored by parse_gcode_detailed and by parse_gcode: the   *)
(* MotionState is unchanged, no position is appended and nothing is        *)
(* raised, whatever X/Y/Z/E tokens the line carries.                       *)
(* Violated: both parsers test line.startswith('G0') or                    *)
(* line.startswith('G1'), which G10 passes.                                *)
(***************************************************************************)
C11_IgnoredStep ==
  (/\ Len(stream') = Len(stream) + 1
   /\ Command(stream'[Len(stream')]) \notin {<<"G", "0">>, <<"G", "1">>})
  => /\ current_pos' = current_pos
     /\ positions' = positions
     /\ status' = status
     /\ lcurrent_pos' = lcurrent_pos
     /\ positions_by_layer' = positions_by_layer
     /\ lstatus' = lstatus

C11_OtherCommandsIgnored == [][C11_IgnoredStep]_vars

(***************************************************************************)
(* C13.  parse_gcode adds a point to a layer only for a G1 line that       *)
(* carries the deposition marker E: a G1 line without an E token adds no   *)
(* point to any layer.                                                     *)
(* Violated: parse_gcode appends for every line that starts with G1 and    *)
(* never looks for E.                                                      *)
(***************************************************************************)
C13_NoMarkerStep ==
  (/\ Len(stream') = Len(stream) + 1
   /\ Command(stream'[Len(stream')]) = <<"G", "1">>
   /\ ~HasToken(stream'[Len(stream')], "E"))
  => /\ positions_by_layer' = positions_by_layer
     /\ lrecorded' = lrecorded

C13_PointOnlyWithMarker == [][C13_NoMarkerStep]_vars

(***************************************************************************)
(* C14.  Comment text never influences parsing: a stream and any stream    *)
(* that differs from it only in the text after the first ';' of its lines  *)
(* give the same MotionState, the same positions and the same layers, from *)
(* parse_gcode_detailed and from parse_gcode.  The other stream is parsed  *)
(* from the start and compared with what the parsers hold for this one.    *)
(***************************************************************************)
CommentTexts ==
  { <<>>,
    <<"E", "1">>,
    <<" ", "X", "9", " ", "Z", "5">>,
    <<"G", "1", " ", "Y", "2", " ", "E", "3", ";", "Z", "7">> }

CommentedLines == {i \in 1..Len(stream) : Contains(stream[i], ";")}

\* the stream with the comment of line i replaced by f[i]
Recommented(f) ==
  [i \in 1..Len(stream) |->
     IF i \in CommentedLines
       THEN BeforeSemicolon(stream[i]) \o <<";">> \o f[i]
       ELSE stream[i]]

C14_CommentsIgnored ==
  \A f \in [CommentedLines -> CommentTexts] :
     LET d == parse_gcode_detailed(
                [status |-> "reading", pos |-> Origin, out |-> <<>>],
                Recommented(f))
         l == parse_gcode(
                [status |-> "reading", pos |-> Origin,
                 layers |-> EmptyLayers, log |-> <<>>],
                Recommented(f))
     IN  /\ d.pos = current_pos
         /\ d.out = positions
         /\ (d.status = "raised") <=> (status = "raised")
         /\ l.pos = lcurrent_pos
         /\ l.layers = positions_by_layer
         /\ (l.status = "raised") <=> (lstatus = "raised")

\* a G1 line whose only E stands in its comment moved X and recorded
\* nothing, and a line that is a comment as a whole changed nothing
C14_Witness ==
  /\ status = "returned"
  /\ Len(stream) = 2
  /\ Command(stream[1]) = <<"G", "1">>
  /\ CommentedLines = {1, 2}
  /\ BeforeSemicolon(stream[2]) = <<>>
  /\ current_pos = [X |-> 100, Y |-> 0, Z |-> 0]
  /\ positions = <<>>

(***************************************************************************)
(* C18.  The Position parse_gcode_detailed records for a deposition line   *)
(* is the MotionState after the ordinate updates of that line: an ordinate *)
(* the line names has the value written on the line, an ordinate it omits  *)
(* has the value the MotionState held before the line, set by whatever     *)
(* G0 or G1 line came before.                                              *)
(***************************************************************************)
\* the text of the token of a letter: what follows the letter up to the
\* next blank
RECURSIVE UpToBlank(_)
UpToBlank(s) ==
  IF s = <<>> \/ Head(s) = " " THEN <<>>
  ELSE <<Head(s)>> \o UpToBlank(Tail(s))

TokenText(raw, letter) ==
  LET t == strip(BeforeSemicolon(raw))
      i == CHOOSE i \in 2..Len(t) : t[i] = letter /\ t[i - 1] = " "
  IN  UpToBlank(Drop(t, i))

\* the numbers written on the lines of the model, in hundredths
WrittenValue(text) ==
  CASE text = <<"1">> -> 100
    [] text = <<"-", "2">> -> -200
    [] text = <<".", "0", "4">> -> 4
    [] text = <<"7">> -> 700
    [] text = <<"0", ".", "0", "6">> -> 6
    [] text = <<"5", ".">> -> 500
    [] text = <<"3">> -> 300

C18_AfterStep ==
  LET raw == stream'[Len(stream')]
  IN  (/\ Len(stream') = Len(stream) + 1
       /\ Len(positions') = Len(positions) + 1
       /\ IsDepositionLine(raw))
      => /\ \A a \in {"X", "Y", "Z"} :
               Ordinate(positions'[Len(positions')], a) =
                  IF HasToken(raw, a)
                    THEN WrittenValue(TokenText(raw, a))
                    ELSE current_pos[a]
         /\ \A k \in 1..Len(positions) : positions'[k] = positions[k]

C18_PositionAfterUpdates == [][C18_AfterStep]_vars

\* 'G0 Y-2' and then 'G1 X7 Z0.06 E1': the Position has the X and Z of its
\* line and the Y the G0 line left
C18_Witness ==
  /\ Len(stream) = 2
  /\ Command(stream[1]) = <<"G", "0">>
  /\ positions = << <<700, -200, 6>> >>

(***************************************************************************)
(* C24.  The two parsers agree: the Positions of parse_gcode_detailed,     *)
(* grouped by round(Z, 1) with Z dropped, are the layer mapping of         *)
(* parse_gcode, the same keys with the same (X, Y) lists in the same       *)
(* order, and both hold the same MotionState after every line.             *)
(* Violated: parse_gcode records every line that starts with G1,           *)
(* parse_gcode_detailed only those with an E.                              *)
(***************************************************************************)
C24_ParsersAgree ==
  /\ lcurrent_pos = current_pos
  /\ DOMAIN positions_by_layer
       = {round1(positions[i][3]) : i \in 1..Len(positions)}
  /\ \A k \in DOMAIN positions_by_layer :
        positions_by_layer[k] = XYOfKey(positions, k)

(***************************************************************************)
(* The rasterizers.  A grid is a sequence of rows, each a sequence of      *)
(* glyphs; the model writes the glyphs of the scripts as                   *)
(*    " " blank   "#" data   "X" outside the cylinder   "." cylinder       *)
(*    "|" vertical axis   "-" horizontal axis   "+" axis crossing.         *)
(* Coordinates are exact: a quotient is kept as numerator and denominator  *)
(* and int() cuts it toward zero.                                          *)
(***************************************************************************)
\* int(n / d) for d > 0: the quotient cut toward zero
int_div(n, d) == IF n >= 0 THEN n \div d ELSE 0 - ((0 - n) \div d)

RECURSIVE SeqMin(_)
SeqMin(s) ==
  IF Len(s) = 1 THEN s[1]
  ELSE LET m == SeqMin(Tail(s)) IN IF Head(s) < m THEN Head(s) ELSE m

RECURSIVE SeqMax(_)
SeqMax(s) ==
  IF Len(s) = 1 THEN s[1]
  ELSE LET m == SeqMax(Tail(s)) IN IF Head(s) > m THEN Head(s) ELSE m

Col(pts, c) == [i \in 1..Len(pts) |-> pts[i][c]]

RECURSIVE Filter(_, _, _)
Filter(pts, z, tol) ==
  IF pts = <<>> THEN <<>>
  ELSE (IF Abs(Head(pts)[3] - z) < tol THEN <<Head(pts)>> ELSE <<>>)
       \o Filter(Tail(pts), z, tol)

\* 0 <= grid_x < width and 0 <= grid_y < height
InGrid(gx, gy, width, height) ==
  0 <= gx /\ gx < width /\ 0 <= gy /\ gy < height

\* faulty variant of Overlay: a cell that was written shows a mark of its
\* own
OverlayMarks(cells, gx, gy, before) ==
  LET hits == {k \in 1..Len(cells) :
                 cells[k].set /\ cells[k].gx = gx /\ cells[k].gy = gy}
  IN  IF hits = {} THEN before ELSE "*"

\* the glyph the plot loop leaves in cell (gx, gy): that of the last point
\* written there, or the glyph the cell had
Overlay(cells, gx, gy, before) ==
  LET hits == {k \in 1..Len(cells) :
                 cells[k].set /\ cells[k].gx = gx /\ cells[k].gy = gy}
  IN  IF hits = {} THEN before
      ELSE cells[CHOOSE k \in hits : \A m \in hits : m <= k].glyph

(***************************************************************************)
(* validate_gcode_geometry.plot_cross_section: the call of the script,     *)
(* width 70 by height 35, tolerance 0.15, on the window -8..8.             *)
(***************************************************************************)
CrossWidth == 70
CrossHeight == 35
CrossTolerance == 15
extent == 800

\* faulty variant of OutsideCylinder: the radius 6.5 itself is outside
OutsideCylinderInclusive(x, y) == x * x + y * y >= 650 * 650

\* r > 6.5 for a data point
OutsideCylinder(x, y) == x * x + y * y > 650 * 650

\* faulty variant of cross_grid_x: scaled by width, not by width - 1
cross_grid_x_wide(x) ==
  int_div((x - (0 - extent)) * CrossWidth, extent - (0 - extent))

cross_grid_x(x) ==
  int_div((x - (0 - extent)) * (CrossWidth - 1), extent - (0 - extent))

cross_grid_y(y) ==
  int_div((extent - y) * (CrossHeight - 1), extent - (0 - extent))

\* per layer point, in order: the cell computed and the glyph written
CrossCells(layer) ==
  [k \in 1..Len(layer) |->
     LET gx == cross_grid_x(layer[k][1])
         gy == cross_grid_y(layer[k][2])
     IN  [x |-> layer[k][1], y |-> layer[k][2], gx |-> gx, gy |-> gy,
          set   |-> InGrid(gx, gy, CrossWidth, CrossHeight),
          glyph |-> IF OutsideCylinder(layer[k][1], layer[k][2])
                      THEN "X" ELSE "#"]]

\* 5.8 < r < 6.2 at the centre of cell (i, j): with x = 8 (2i - 69) / 69
\* and y = 8 (17 - j) / 17, r * r = 64 (A * A + B * B) / (69 * 17) ^ 2
OnCylinder(i, j) ==
  LET A == (2 * i - (CrossWidth - 1)) * 17
      B == (17 - j) * (CrossWidth - 1)
      S == A * A + B * B
      D == (CrossWidth - 1) * 17
  IN  /\ S > (841 * D * D) \div 1600
      /\ S <= (961 * D * D - 1) \div 1600

CrossGrid(cells) ==
  LET zero_x == int_div((0 - (0 - extent)) * (CrossWidth - 1),
                        extent - (0 - extent))
      zero_y == int_div((extent - 0) * (CrossHeight - 1),
                        extent - (0 - extent))
      plotted(i, j) == Overlay(cells, i, j,
                               IF OnCylinder(i, j) THEN "." ELSE " ")
      axes(i, j) ==
        IF i = zero_x /\ j = zero_y THEN "+"
        ELSE IF i = zero_x /\ plotted(i, j) \in {" ", "."} THEN "|"
        ELSE IF j = zero_y /\ plotted(i, j) \in {" ", "."} THEN "-"
        ELSE plotted(i, j)
  IN  [r \in 1..CrossHeight |-> [c \in 1..CrossWidth |-> axes(c - 1, r - 1)]]

(***************************************************************************)
(* Angular gap detection of plot_cross_section.  Angles count hundredths   *)
(* of a degree.  np.degrees(np.arctan2(y, x)) is tabulated, to the nearest *)
(* hundredth, for the directions of the points the model draws.            *)
(***************************************************************************)
ArctanTable ==
  { <<0, 0, 0>>,
    <<800, -800, -4500>>,
    <<-801, 0, 18000>>,
    <<100, 801, 8288>>,
    <<900, 0, 0>>,
    <<600, 0, 0>>,
    <<700, 0, 0>>,
    <<650, 0, 0>>,
    <<0, 300, 9000>>,
    <<-300, -300, -13500>>,
    <<591, 104, 998>>,
    <<520, 300, 2998>>,
    <<0, 600, 9000>>,
    <<-104, 591, 9998>>,
    <<-600, 0, 18000>>,
    <<0, -600, -9000>>,
    <<591, -104, -998>>,
    <<554, 230, 2255>>,
    <<424, 424, 4500>>,
    <<230, 554, 6745>>,
    <<-230, 554, 11255>>,
    <<-424, 424, 13500>>,
    <<-554, 230, 15745>>,
    <<-554, -230, -15745>>,
    <<-424, -424, -13500>>,
    <<-230, -554, -11255>>,
    <<230, -554, -6745>>,
    <<424, -424, -4500>>,
    <<554, -230, -2255>> }

arctan2_deg(y, x) ==
  (CHOOSE t \in ArctanTable : t[1] = x /\ t[2] = y)[3]

\* angles_deg[angles_deg < 0] += 360
Normalized(a) == IF a < 0 THEN a + 36000 ELSE a

\* np.sort(angles_deg)
AnglesSorted(layer) ==
  SortSeq([k \in 1..Len(layer) |->
             Normalized(arctan2_deg(layer[k][2], layer[k][1]))],
          LAMBDA a, b : a < b)

\* np.diff
Diff(s) == [k \in 1..(Len(s) - 1) |-> s[k + 1] - s[k]]

\* faulty variant of ArgMax: the last index of the largest element
ArgMaxLast(s) ==
  CHOOSE k \in 1..Len(s) :
     /\ \A m \in 1..Len(s) : s[m] <= s[k]
     /\ \A m \in (k + 1)..Len(s) : s[m] < s[k]

\* np.argmax: the first index of the largest element
ArgMax(s) ==
  CHOOSE k \in 1..Len(s) :
     /\ \A m \in 1..Len(s) : s[m] <= s[k]
     /\ \A m \in 1..(k - 1) : s[m] < s[k]

OpeningThreshold == 3000

\* the OPENING line of the report: gap, start and end, or "none"
Opening(layer) ==
  LET angles_sorted == AnglesSorted(layer)
  IN  IF Len(angles_sorted) > 1
        THEN LET gaps        == Diff(angles_sorted)
                 max_gap_idx == ArgMax(gaps)
                 max_gap     == gaps[max_gap_idx]
             IN  IF max_gap > OpeningThreshold
                   THEN [kind      |-> "opening",
                         max_gap   |-> max_gap,
                         gap_start |-> angles_sorted[max_gap_idx],
                         gap_end   |-> angles_sorted[max_gap_idx + 1]]
                   ELSE [kind |-> "none"]
        ELSE [kind |-> "none"]

\* plot_cross_section(positions, z_target, tolerance); np.array([]) of an
\* empty list of positions has one dimension, and positions[:, 2] raises
plot_cross_section(pts, z_target, tolerance) ==
  IF pts = <<>> THEN [kind |-> "raised"]
  ELSE LET layer_points == Filter(pts, z_target, tolerance)
       IN  IF Len(layer_points) = 0 THEN [kind |-> "nodata"]
           ELSE [kind    |-> "text",
                 layer   |-> layer_points,
                 cells   |-> CrossCells(layer_points),
                 grid    |-> CrossGrid(CrossCells(layer_points)),
                 opening |-> Opening(layer_points)]

(***************************************************************************)
(* visualize_gcode_cli.ascii_plot_layer, as main calls it: 70 by 30, the   *)
(* window of the data with a margin of 1.                                  *)
(***************************************************************************)
LayerWidth == 70
LayerHeight == 30
LayerMargin == 100

LayerWindow(pts) ==
  [min_x |-> SeqMin(Col(pts, 1)) - LayerMargin,
   max_x |-> SeqMax(Col(pts, 1)) + LayerMargin,
   min_y |-> SeqMin(Col(pts, 2)) - LayerMargin,
   max_y |-> SeqMax(Col(pts, 2)) + LayerMargin]

layer_grid_x(x, w) ==
  int_div((x - w.min_x) * (LayerWidth - 1), w.max_x - w.min_x)

layer_grid_y(y, w) ==
  LayerHeight - 1
    - int_div((y - w.min_y) * (LayerHeight - 1), w.max_y - w.min_y)

LayerCells(pts, w) ==
  [k \in 1..Len(pts) |->
     LET gx == layer_grid_x(pts[k][1], w)
         gy == layer_grid_y(pts[k][2], w)
     IN  [x |-> pts[k][1], y |-> pts[k][2], gx |-> gx, gy |-> gy,
          set   |-> InGrid(gx, gy, LayerWidth, LayerHeight),
          glyph |-> "#"]]

LayerGrid(cells) ==
  LET plotted(i, j) == Overlay(cells, i, j, " ")
      axes(i, j) ==
        IF i = LayerWidth \div 2 /\ j = LayerHeight \div 2 THEN "+"
        ELSE IF i = LayerWidth \div 2 /\ plotted(i, j) = " " THEN "|"
        ELSE IF j = LayerHeight \div 2 /\ plotted(i, j) = " " THEN "-"
        ELSE plotted(i, j)
  IN  [r \in 1..LayerHeight |-> [c \in 1..LayerWidth |-> axes(c - 1, r - 1)]]

ascii_plot_layer(pts) ==
  IF pts = <<>> THEN [kind |-> "nodata"]
  ELSE [kind   |-> "text",
        layer  |-> pts,
        window |-> LayerWindow(pts),
        cells  |-> LayerCells(pts, LayerWindow(pts)),
        grid   |-> LayerGrid(LayerCells(pts, LayerWindow(pts)))]

(***************************************************************************)
(* analyze_stl_views.ascii_plot_2d, as the top view calls it: 70 by 30,    *)
(* the window of the data with a margin of a tenth of the larger span.     *)
(* The window is kept in thousandths, where the margin is a whole number.  *)
(***************************************************************************)
StlWidth == 70
StlHeight == 30

Max2(a, b) == IF a > b THEN a ELSE b

StlWindow(pts) ==
  LET lo_x   == SeqMin(Col(pts, 1))
      hi_x   == SeqMax(Col(pts, 1))
      lo_y   == SeqMin(Col(pts, 2))
      hi_y   == SeqMax(Col(pts, 2))
      margin == Max2(hi_x - lo_x, hi_y - lo_y)
  IN  [min_x |-> 10 * lo_x - margin, max_x |-> 10 * hi_x + margin,
       min_y |-> 10 * lo_y - margin, max_y |-> 10 * hi_y + margin]

\* the division by max - min of a window without extent gives nan, and
\* int(nan) raises ValueError
StlRaises(w) == w.max_x = w.min_x \/ w.max_y = w.min_y

stl_grid_x(x, w) ==
  int_div((10 * x - w.min_x) * (StlWidth - 1), w.max_x - w.min_x)

stl_grid_y(y, w) ==
  StlHeight - 1
    - int_div((10 * y - w.min_y) * (StlHeight - 1), w.max_y - w.min_y)

StlCells(pts, w) ==
  [k \in 1..Len(pts) |->
     LET gx == stl_grid_x(pts[k][1], w)
         gy == stl_grid_y(pts[k][2], w)
     IN  [x |-> pts[k][1], y |-> pts[k][2], gx |-> gx, gy |-> gy,
          set   |-> InGrid(gx, gy, StlWidth, StlHeight),
          glyph |-> "#"]]

StlGrid(cells, w) ==
  LET zero_x == stl_grid_x(0, w)
      zero_y == stl_grid_y(0, w)
      plotted(i, j) == Overlay(cells, i, j, " ")
      col_ok == 0 <= zero_x /\ zero_x < StlWidth
      row_ok == 0 <= zero_y /\ zero_y < StlHeight
      axes(i, j) ==
        IF col_ok /\ row_ok /\ i = zero_x /\ j = zero_y THEN "+"
        ELSE IF col_ok /\ i = zero_x /\ plotted(i, j) = " " THEN "|"
        ELSE IF row_ok /\ j = zero_y /\ plotted(i, j) = " " THEN "-"
        ELSE plotted(i, j)
  IN  [r \in 1..StlHeight |-> [c \in 1..StlWidth |-> axes(c - 1, r - 1)]]

ascii_plot_2d(pts) ==
  IF Len(pts) = 0 THEN [kind |-> "nodata"]
  ELSE IF StlRaises(StlWindow(pts)) THEN [kind |-> "raised"]
  ELSE [kind   |-> "text",
        layer  |-> pts,
        window |-> StlWindow(pts),
        cells  |-> StlCells(pts, StlWindow(pts)),
        grid   |-> StlGrid(StlCells(pts, StlWindow(pts)), StlWindow(pts))]

(***************************************************************************)
(* The calls of the rasterizers, each on the points drawn at the start.    *)
(***************************************************************************)
RasterPoints ==
  { <<0, 0, 100>>, <<800, -800, 100>>, <<-801, 0, 100>>, <<100, 801, 110>>,
    <<900, 0, 100>>, <<600, 0, 100>>, <<700, 0, 100>>, <<0, 300, 200>>,
    <<-300, -300, 100>>, <<650, 0, 100>> }

\* the heights main asks for that the model draws
TargetHeights == {100}

SeqsUpTo(S, n) == UNION {[1..k -> S] : k \in 0..n}

PlotCrossSection ==
  /\ rfn = "none"
  /\ \E z \in TargetHeights :
        /\ rfn' = "plot_cross_section"
        /\ rres' = plot_cross_section(rpoints, z, CrossTolerance)
  /\ UNCHANGED <<rpoints, parserVars, geomVars, mainVars>>

AsciiPlotLayer ==
  /\ rfn = "none"
  /\ rfn' = "ascii_plot_layer"
  /\ rres' = ascii_plot_layer(rpoints)
  /\ UNCHANGED <<rpoints, parserVars, geomVars, mainVars>>

AsciiPlot2d ==
  /\ rfn = "none"
  /\ rfn' = "ascii_plot_2d"
  /\ rres' = ascii_plot_2d(rpoints)
  /\ UNCHANGED <<rpoints, parserVars, geomVars, mainVars>>

RasterInit ==
  /\ ParserInit
  /\ GeomIdle
  /\ MainIdle
  /\ rpoints \in SeqsUpTo(RasterPoints, MaxPts)
  /\ rfn = "none"
  /\ rres = [kind |-> "none"]

RasterNext == PlotCrossSection \/ AsciiPlotLayer \/ AsciiPlot2d

SpecRaster == RasterInit /\ [][RasterNext]_vars

(***************************************************************************)
(* The gap detection on layers of points of the cylinder wall: the same    *)
(* call of plot_cross_section, on points at 0, 10, 30, 90, 100, 135, 180,  *)
(* 270 and 350 degrees of the circle of radius 6 (to the hundredth of a    *)
(* millimetre).                                                            *)
(***************************************************************************)
GapPoints ==
  { <<600, 0, 100>>, <<591, 104, 100>>, <<520, 300, 100>>, <<0, 600, 100>>,
    <<-104, 591, 100>>, <<-600, 0, 100>>, <<0, -600, 100>>,
    <<591, -104, 100>>, <<-424, 424, 100>> }

GapInit ==
  /\ ParserInit
  /\ GeomIdle
  /\ MainIdle
  /\ rpoints \in SeqsUpTo(GapPoints, MaxGapPts)
  /\ rfn = "none"
  /\ rres = [kind |-> "none"]

GapNext == PlotCrossSection

SpecGap == GapInit /\ [][GapNext]_vars

(***************************************************************************)
(* validate_gcode_geometry.check_geometry_issues.                          *)
(***************************************************************************)
expected_radius == 600

\* faulty variant of IsOutlier: the radius 6.5 itself is flagged
IsOutlierInclusive(p) ==
  p[1] * p[1] + p[2] * p[2] >= (expected_radius + 50) * (expected_radius + 50)

\* faulty variant of IsOutlier: the tolerance is subtracted
IsOutlierInner(p) ==
  p[1] * p[1] + p[2] * p[2] > (expected_radius - 50) * (expected_radius - 50)

\* radii > expected_radius + 0.5
IsOutlier(p) ==
  p[1] * p[1] + p[2] * p[2] > (expected_radius + 50) * (expected_radius + 50)

\* np.where(outside_cylinder)[0][:5]
SampleSize == 5

RECURSIVE Where(_, _)
Where(flags, k) ==
  IF k > Len(flags) THEN <<>>
  ELSE (IF flags[k] THEN <<k>> ELSE <<>>) \o Where(flags, k + 1)

FirstN(s, n) == IF Len(s) <= n THEN s ELSE Take(s, n)

\* positions.min(axis=0) of an array without elements raises ValueError
check_geometry_issues(pts) ==
  IF pts = <<>> THEN [kind |-> "raised"]
  ELSE
    LET outside_cylinder == [k \in 1..Len(pts) |-> IsOutlier(pts[k])]
        any == \E k \in 1..Len(pts) : outside_cylinder[k]
    IN  [kind             |-> "report",
         dims             |-> [c \in 1..3 |->
                                 SeqMax(Col(pts, c)) - SeqMin(Col(pts, c))],
         outside_cylinder |-> outside_cylinder,
         count            |-> Cardinality({k \in 1..Len(pts) :
                                             outside_cylinder[k]}),
         outlier_idx      |-> IF any
                                THEN FirstN(Where(outside_cylinder, 1),
                                            SampleSize)
                                ELSE <<>>]

\* radius 7.0, 6.3 and exactly 6.5
GeomPoints == { <<700, 0, 100>>, <<630, 0, 100>>, <<650, 0, 100>> }

CheckGeometryIssues ==
  /\ gres.kind = "none"
  /\ gres' = check_geometry_issues(gpositions)
  /\ UNCHANGED <<gpositions, parserVars, rasterVars, mainVars>>

GeomInit ==
  /\ ParserInit
  /\ RasterIdle
  /\ MainIdle
  /\ gpositions \in SeqsUpTo(GeomPoints, MaxGeomPts)
  /\ gres = [kind |-> "none"]

GeomNext == CheckGeometryIssues

SpecGeom == GeomInit /\ [][GeomNext]_vars

(***************************************************************************)
(* The window and the size of the grid of the rasterizer that was called;  *)
(* ascii_plot_2d keeps its window in thousandths.                          *)
(***************************************************************************)
GridWidth ==
  IF rfn = "plot_cross_section" THEN CrossWidth
  ELSE IF rfn = "ascii_plot_layer" THEN LayerWidth ELSE StlWidth

GridHeight ==
  IF rfn = "plot_cross_section" THEN CrossHeight
  ELSE IF rfn = "ascii_plot_layer" THEN LayerHeight ELSE StlHeight

InWindow(c) ==
  IF rfn = "plot_cross_section"
    THEN -800 <= c.x /\ c.x <= 800 /\ -800 <= c.y /\ c.y <= 800
  ELSE IF rfn = "ascii_plot_layer"
    THEN /\ rres.window.min_x <= c.x /\ c.x <= rres.window.max_x
         /\ rres.window.min_y <= c.y /\ c.y <= rres.window.max_y
  ELSE /\ rres.window.min_x <= 10 * c.x /\ 10 * c.x <= rres.window.max_x
       /\ rres.window.min_y <= 10 * c.y /\ 10 * c.y <= rres.window.max_y

(***************************************************************************)
(* C4.  In each rasterizer a point inside the window, its border included, *)
(* gets cell indices with 0 <= grid_x < width and 0 <= grid_y < height.    *)
(***************************************************************************)
C4_InWindowInGrid ==
  rres.kind = "text" =>
    \A k \in 1..Len(rres.cells) :
       InWindow(rres.cells[k]) =>
          /\ 0 <= rres.cells[k].gx /\ rres.cells[k].gx < GridWidth
          /\ 0 <= rres.cells[k].gy /\ rres.cells[k].gy < GridHeight
          /\ rres.cells[k].set

\* the corner (8, -8) of the fixed window lands in the last column and row
C4_Witness ==
  /\ rfn = "plot_cross_section"
  /\ rres.kind = "text"
  /\ \E k \in 1..Len(rres.cells) :
        /\ rres.cells[k].x = 800 /\ rres.cells[k].y = -800
        /\ rres.cells[k].gx = 69 /\ rres.cells[k].gy = 34

(***************************************************************************)
(* C5.  In plot_cross_section a layer point whose x or y lies outside the  *)
(* window -8..8 never sets a grid cell, however little it lies outside.    *)
(* Violated: int() cuts toward zero, so a point less than one cell outside *)
(* gets the index of the border cell and is drawn.                         *)
(***************************************************************************)
C5_OutsideNeverDrawn ==
  (rfn = "plot_cross_section" /\ rres.kind = "text") =>
    \A k \in 1..Len(rres.cells) :
       ~InWindow(rres.cells[k]) => ~rres.cells[k].set

(***************************************************************************)
(* C6.  No rasterizer raises on a degenerate input: the empty point set    *)
(* and the point set without extent on an axis give a result.              *)
(* Violated: ascii_plot_2d on points that are all the same has a margin of *)
(* 0 and divides by max - min = 0; plot_cross_section indexes the second   *)
(* dimension of the array of no positions.                                 *)
(***************************************************************************)
C6_NeverRaises == rres.kind # "raised"

(***************************************************************************)
(* C7.  For a layer of at least two points the largest gap is the largest  *)
(* of the differences of consecutive sorted angles and of the wraparound   *)
(* difference 360 + first - last; the wraparound gap, when the largest, is *)
(* reported from the last angle to the first.                              *)
(* Violated: the detection takes np.diff of the sorted angles alone.       *)
(***************************************************************************)
WrapGap(sorted) == 36000 + sorted[1] - sorted[Len(sorted)]

C7_GapIncludesWraparound ==
  (rfn = "plot_cross_section" /\ rres.kind = "text" /\ Len(rres.layer) >= 2)
  => LET sorted == AnglesSorted(rres.layer)
         wrap   == WrapGap(sorted)
         inner  == SeqMax(Diff(sorted))
         best   == IF wrap > inner THEN wrap ELSE inner
     IN  /\ best > 3000 =>
              /\ rres.opening.kind = "opening"
              /\ rres.opening.max_gap = best
              /\ wrap > inner =>
                   /\ rres.opening.gap_start = sorted[Len(sorted)]
                   /\ rres.opening.gap_end = sorted[1]
         /\ best <= 3000 => rres.opening.kind = "none"

(***************************************************************************)
(* C8.  check_geometry_issues with radius 6.0 and tolerance 0.5 flags a    *)
(* position exactly when its radius is strictly greater than 6.5, counts   *)
(* the flagged positions, and lists at most 5 of them: the first flagged   *)
(* ones in parse order.                                                    *)
(***************************************************************************)
StrictlyBeyond(p) == p[1] * p[1] + p[2] * p[2] > 422500

C8_Outliers ==
  gres.kind = "report" =>
    LET n       == Len(gpositions)
        flagged == {k \in 1..n : StrictlyBeyond(gpositions[k])}
        idx     == gres.outlier_idx
    IN  /\ \A k \in 1..n : gres.outside_cylinder[k] <=> k \in flagged
        /\ gres.count = Cardinality(flagged)
        /\ Len(idx) = (IF Cardinality(flagged) < 5
                         THEN Cardinality(flagged) ELSE 5)
        /\ \A a \in 1..Len(idx) : idx[a] \in flagged
        /\ \A a \in 1..Len(idx) : \A b \in 1..Len(idx) :
              a < b => idx[a] < idx[b]
        /\ \A k \in flagged :
              (\A a \in 1..Len(idx) : idx[a] # k)
              => \A a \in 1..Len(idx) : idx[a] < k

\* six outliers after a position at radius exactly 6.5 and one at 6.3: five
\* are listed, the sixth is not, the two others are not flagged
C8_Witness ==
  /\ gres.kind = "report"
  /\ gres.count = 6
  /\ Len(gres.outlier_idx) = 5
  /\ gpositions[1] = <<650, 0, 100>>
  /\ ~gres.outside_cylinder[1]
  /\ gres.outlier_idx[1] = 2

(***************************************************************************)
(* C12.  In each rasterizer a cell that a data point was plotted into      *)
(* still shows a data glyph after the axes were added, the cell where the  *)
(* two axes cross included.                                                *)
(* Violated: every rasterizer writes the crossing glyph without looking at *)
(* what the cell holds.                                                    *)
(***************************************************************************)
C12_DataOverAxes ==
  rres.kind = "text" =>
    \A k \in 1..Len(rres.cells) :
       rres.cells[k].set =>
          rres.grid[rres.cells[k].gy + 1][rres.cells[k].gx + 1] \in {"#", "X"}

(***************************************************************************)
(* C15.  The report of plot_cross_section has an OPENING line if and only  *)
(* if the layer has at least two points and its largest angular gap, the   *)
(* wraparound gap among them, is strictly greater than 30 degrees.         *)
(* Violated: the gap the threshold is applied to is the largest of the     *)
(* consecutive differences alone, so a layer whose only large gap is the   *)
(* wraparound one gets no OPENING line.                                    *)
(***************************************************************************)
LargestGap(sorted) ==
  IF WrapGap(sorted) > SeqMax(Diff(sorted))
    THEN WrapGap(sorted) ELSE SeqMax(Diff(sorted))

C15_OpeningIffGapOver30 ==
  (rfn = "plot_cross_section" /\ rres.kind = "text") =>
     (rres.opening.kind = "opening"
        <=> /\ Len(rres.layer) >= 2
            /\ LargestGap(AnglesSorted(rres.layer)) > 3000)

(***************************************************************************)
(* C17.  In plot_cross_section a plotted data point is drawn with 'X'      *)
(* exactly when its radius is strictly greater than 6.5, with the          *)
(* in-tolerance glyph otherwise; and a cell of the reference circle that a *)
(* data point maps to shows the glyph of the data (of the last point       *)
(* plotted there), not the circle.                                         *)
(***************************************************************************)
C17_DataGlyphs ==
  (rfn = "plot_cross_section" /\ rres.kind = "text") =>
    \A k \in 1..Len(rres.cells) :
       LET c    == rres.cells[k]
           hits == {m \in 1..Len(rres.cells) :
                      /\ rres.cells[m].set
                      /\ rres.cells[m].gx = c.gx
                      /\ rres.cells[m].gy = c.gy}
           last == CHOOSE m \in hits : \A n \in hits : n <= m
       IN  c.set =>
             /\ c.glyph = IF c.x * c.x + c.y * c.y > 422500 THEN "X" ELSE "#"
             /\ OnCylinder(c.gx, c.gy) =>
                  /\ rres.grid[c.gy + 1][c.gx + 1] = rres.cells[last].glyph
                  /\ rres.grid[c.gy + 1][c.gx + 1] \in {"#", "X"}

\* a point at radius exactly 6.5 is drawn in tolerance, and the point at
\* radius 6.0 took the place of the reference circle in its cell
C17_Witness ==
  /\ rfn = "plot_cross_section"
  /\ rres.kind = "text"
  /\ Len(rres.cells) = 2
  /\ rres.cells[1].x = 650 /\ rres.cells[1].y = 0
  /\ rres.cells[1].set /\ rres.cells[1].glyph = "#"
  /\ rres.cells[2].x = 600
  /\ OnCylinder(rres.cells[2].gx, rres.cells[2].gy)
  /\ rres.grid[rres.cells[2].gy + 1][rres.cells[2].gx + 1] = "#"

(***************************************************************************)
(* C19.  The rasterizers compute the cell of a point by rounding to the    *)
(* nearest cell: grid_x is an integer nearest to                           *)
(* (x - min_x) / (max_x - min_x) * (width - 1) and height - 1 - grid_y an  *)
(* integer nearest to (y - min_y) / (max_y - min_y) * (height - 1); and    *)
(* the mapping is monotonic, a larger y on a higher row.                   *)
(* Violated: the rasterizers cut the quotient with int(), toward zero.     *)
(***************************************************************************)
RasterWindow ==
  IF rfn = "plot_cross_section"
    THEN [min_x |-> -800, max_x |-> 800, min_y |-> -800, max_y |-> 800]
    ELSE rres.window

\* ascii_plot_2d keeps its window in thousandths
WorldScale == IF rfn = "ascii_plot_2d" THEN 10 ELSE 1

\* g is an integer nearest to n / d
IsNearest(n, d, g) == 2 * Abs(n - g * d) <= d

C19_RoundToNearestCell ==
  rres.kind = "text" =>
    /\ \A k \in 1..Len(rres.cells) :
          LET c == rres.cells[k]
              w == RasterWindow
          IN  /\ IsNearest((WorldScale * c.x - w.min_x) * (GridWidth - 1),
                           w.max_x - w.min_x, c.gx)
              /\ IsNearest((WorldScale * c.y - w.min_y) * (GridHeight - 1),
                           w.max_y - w.min_y, GridHeight - 1 - c.gy)
    /\ \A k \in 1..Len(rres.cells) : \A m \in 1..Len(rres.cells) :
          /\ rres.cells[k].x <= rres.cells[m].x
               => rres.cells[k].gx <= rres.cells[m].gx
          /\ rres.cells[k].y <= rres.cells[m].y
               => rres.cells[k].gy >= rres.cells[m].gy

(***************************************************************************)
(* C20.  In each rasterizer the axis lines stand on the column and the row *)
(* that the world origin projects to under the transform of the data       *)
(* points, and on no other; when the origin projects outside the grid the  *)
(* line is left out.                                                       *)
(* Violated: ascii_plot_layer draws its axes on column width // 2 and row  *)
(* height // 2, wherever its window, computed from the data, puts the      *)
(* origin.                                                                 *)
(***************************************************************************)
OriginColumn ==
  IF rfn = "plot_cross_section" THEN cross_grid_x(0)
  ELSE IF rfn = "ascii_plot_layer" THEN layer_grid_x(0, rres.window)
  ELSE stl_grid_x(0, rres.window)

OriginRow ==
  IF rfn = "plot_cross_section" THEN cross_grid_y(0)
  ELSE IF rfn = "ascii_plot_layer" THEN layer_grid_y(0, rres.window)
  ELSE stl_grid_y(0, rres.window)

C20_AxesAtProjectedOrigin ==
  rres.kind = "text" =>
    \A r \in 1..GridHeight : \A c \in 1..GridWidth :
       /\ rres.grid[r][c] \in {"|", "+"} => c - 1 = OriginColumn
       /\ rres.grid[r][c] \in {"-", "+"} => r - 1 = OriginRow
       /\ c - 1 = OriginColumn => rres.grid[r][c] # " "
       /\ r - 1 = OriginRow => rres.grid[r][c] # " "

(***************************************************************************)
(* The run of validate_gcode_geometry on a stream of two layers, at Z=0.0  *)
(* and Z=1.0, each of 16 deposition lines evenly spaced on the circle of   *)
(* radius 6.0, coordinates written with two decimals.  The streams differ  *)
(* in the point a layer starts at, in its direction, and in whether every  *)
(* line or only the first line of a layer carries the Z token.             *)
(***************************************************************************)
Circle16 ==
  << <<600, 0>>, <<554, 230>>, <<424, 424>>, <<230, 554>>,
     <<0, 600>>, <<-230, 554>>, <<-424, 424>>, <<-554, 230>>,
     <<-600, 0>>, <<-554, -230>>, <<-424, -424>>, <<-230, -554>>,
     <<0, -600>>, <<230, -554>>, <<424, -424>>, <<554, -230>> >>

DigitChar(d) == <<"0", "1", "2", "3", "4", "5", "6", "7", "8", "9">>[d + 1]

\* a length below 10 mm written with two decimals: 554 is 5.54
Fmt(h) ==
  (IF h < 0 THEN <<"-">> ELSE <<>>)
  \o <<DigitChar(Abs(h) \div 100), ".",
       DigitChar((Abs(h) \div 10) % 10), DigitChar(Abs(h) % 10)>>

CircleLine(k, z, withZ) ==
  <<"G", "1", " ", "X">> \o Fmt(Circle16[k + 1][1])
  \o <<" ", "Y">> \o Fmt(Circle16[k + 1][2])
  \o (IF withZ THEN <<" ", "Z">> \o Fmt(z) ELSE <<>>)
  \o <<" ", "E", "1">>

CircleStream(start, dir, everyZ) ==
  [n \in 1..32 |->
     LET m == (n - 1) % 16
         z == IF n <= 16 THEN 0 ELSE 100
     IN  CircleLine((start + dir * m + 16 * 16) % 16, z, everyZ \/ m = 0)]

CircleStreams ==
  { CircleStream(start, dir, everyZ) :
      start \in 0..15, dir \in {1, -1}, everyZ \in BOOLEAN }

\* the next line of the file
E2ERead ==
  /\ \E f \in CircleStreams :
        /\ Len(stream) < Len(f)
        /\ stream = Take(f, Len(stream))
        /\ ReadBody(f[Len(stream) + 1])
  /\ UNCHANGED <<rasterVars, geomVars, mainVars>>

E2EEndOfFile ==
  /\ stream \in CircleStreams
  /\ CloseFile
  /\ UNCHANGED <<rasterVars, geomVars, mainVars>>

\* dims = check_geometry_issues(positions)
E2ECheck ==
  /\ status = "returned"
  /\ gres.kind = "none"
  /\ gpositions' = positions
  /\ gres' = check_geometry_issues(positions)
  /\ UNCHANGED <<parserVars, rasterVars, mainVars>>

\* plot_cross_section(positions, z, tolerance=0.15) at the height of a layer
E2EPlot ==
  /\ gres.kind = "report"
  /\ rfn = "none"
  /\ \E z \in {0, 100} :
        /\ rpoints' = positions
        /\ rfn' = "plot_cross_section"
        /\ rres' = plot_cross_section(positions, z, CrossTolerance)
  /\ UNCHANGED <<parserVars, geomVars, mainVars>>

E2ENext == E2ERead \/ E2EEndOfFile \/ E2ECheck \/ E2EPlot

SpecE2E == Init /\ [][E2ENext]_vars

(***************************************************************************)
(* C9.  The stream of two layers of 16 points evenly spaced on the circle  *)
(* of radius 6.0 gives zero outliers, and no OPENING line for the layer at *)
(* Z=0.0 nor for the layer at Z=1.0.                                       *)
(***************************************************************************)
C9_CircleIsClean ==
  /\ status # "raised"
  /\ status = "returned" => Len(positions) = 32
  /\ gres.kind # "raised"
  /\ gres.kind = "report" => (gres.count = 0 /\ gres.outlier_idx = <<>>)
  /\ rfn = "plot_cross_section" =>
        /\ rres.kind = "text"
        /\ Len(rres.layer) = 16
        /\ rres.opening.kind = "none"

\* the report of the layer at Z=1.0 of a stream whose second layer names
\* its height on the first line only
C9_Witness ==
  /\ rfn = "plot_cross_section"
  /\ rres.kind = "text"
  /\ \A k \in 1..Len(rres.layer) : rres.layer[k][3] = 100
  /\ ~HasToken(stream[32], "Z")
  /\ rres.opening.kind = "none"
  /\ gres.count = 0

(***************************************************************************)
(* main of visualize_gcode_cli without heights on the command line: the    *)
(* file is parsed, the layer keys are sorted, and num_samples = 8 heights  *)
(* are taken at the indices i * (len // 8).  The streams have one          *)
(* deposition line per layer, the layers a fixed pitch apart.              *)
(***************************************************************************)
num_samples == 8

\* sorted(layers.keys())
RECURSIVE sorted(_)
sorted(S) ==
  IF S = {} THEN <<>>
  ELSE LET m == CHOOSE m \in S : \A k \in S : m <= k
       IN  <<m>> \o sorted(S \ {m})

\* step = len(available_z) // num_samples
SampleStep(n) == n \div num_samples

\* min(available_z) of no layers raises ValueError; available_z[i * step]
\* beyond the end of the list raises IndexError
main_target_z(layers) ==
  LET available_z == sorted(DOMAIN layers)
      step        == SampleStep(Len(available_z))
      idx         == [i \in 1..num_samples |-> (i - 1) * step]
  IN  IF available_z = <<>> THEN [kind |-> "raised"]
      ELSE IF \E i \in 1..num_samples : idx[i] >= Len(available_z)
        THEN [kind |-> "raised"]
      ELSE [kind        |-> "heights",
            available_z |-> available_z,
            idx         |-> idx,
            z           |-> [i \in 1..num_samples |->
                               available_z[idx[i] + 1]]]

\* the stream of n layers, the lowest at first, pitch apart, each of one
\* point, the next point of the circle for the next layer
LayerStream(n, first, pitch) ==
  [i \in 1..n |-> CircleLine((i - 1) % 16, first + pitch * (i - 1), TRUE)]

LayerStreams ==
  { LayerStream(MaxLayers, first, pitch) :
      first \in {0, 20}, pitch \in {10, 20, 30} }

\* the next line of the file
SampleRead ==
  /\ \E f \in LayerStreams :
        /\ Len(stream) < Len(f)
        /\ stream = Take(f, Len(stream))
        /\ ReadBody(f[Len(stream) + 1])
  /\ UNCHANGED <<rasterVars, geomVars, mainVars>>

\* the file ends after any number of layers
SampleEndOfFile == CloseFile /\ UNCHANGED <<rasterVars, geomVars, mainVars>>

\* layers = parse_gcode(filename); ...; target_z = [...]
MainTargetZ ==
  /\ lstatus = "returned"
  /\ target_z.kind = "none"
  /\ target_z' = main_target_z(positions_by_layer)
  /\ UNCHANGED <<shown, parserVars, rasterVars, geomVars>>

SampleNext == SampleRead \/ SampleEndOfFile \/ MainTargetZ

SpecSample == Init /\ [][SampleNext]_vars

(***************************************************************************)
(* C16.  For every non-empty set of layers main picks 8 sample heights at  *)
(* indices inside the sorted list of keys, evenly spaced, and spread       *)
(* across the observed range: of two or more layers it shows more than     *)
(* one.                                                                    *)
(* Violated: with fewer than 8 layers the step len // 8 is 0 and all 8     *)
(* samples are the lowest layer.                                           *)
(***************************************************************************)
C16_SamplesAcrossRange ==
  (target_z.kind # "none" /\ DOMAIN positions_by_layer # {}) =>
     /\ target_z.kind = "heights"
     /\ Len(target_z.z) = 8
     /\ \A i \in 1..8 :
           /\ 0 <= target_z.idx[i]
           /\ target_z.idx[i] < Cardinality(DOMAIN positions_by_layer)
           /\ target_z.z[i] \in DOMAIN positions_by_layer
     /\ \A i \in 1..6 :
           target_z.idx[i + 1] - target_z.idx[i]
             = target_z.idx[i + 2] - target_z.idx[i + 1]
     /\ Cardinality(DOMAIN positions_by_layer) >= 2
          => \E i \in 1..8 : target_z.z[i] # target_z.z[1]

(***************************************************************************)
(* main of visualize_gcode_cli, the loop over the heights: for each height *)
(* the closest layer key is looked up and its bucket is handed to          *)
(* ascii_plot_layer.  The heights are the sampled ones or the ones given   *)
(* on the command line.  The heights drawn for the command line are such   *)
(* that the comparison of the doubles abs(x - z) orders the keys of the    *)
(* model's streams as the decimal numbers do.                              *)
(***************************************************************************)
RequestHeights == {-100, 15, 50, 150, 1000}

\* faulty variant of closest_z_of: of the keys at the least distance, the
\* largest
closest_z_largest(available_z, z) ==
  LET best == CHOOSE i \in 1..Len(available_z) :
                 /\ \A m \in 1..Len(available_z) :
                       Abs(available_z[i] - z) <= Abs(available_z[m] - z)
                 /\ \A m \in (i + 1)..Len(available_z) :
                       Abs(available_z[i] - z) < Abs(available_z[m] - z)
  IN  available_z[best]

\* min(available_z, key=lambda x: abs(x - z)): the first of the keys at the
\* least distance
closest_z_of(available_z, z) ==
  LET best == CHOOSE i \in 1..Len(available_z) :
                 /\ \A m \in 1..Len(available_z) :
                       Abs(available_z[i] - z) <= Abs(available_z[m] - z)
                 /\ \A m \in 1..(i - 1) :
                       Abs(available_z[m] - z) > Abs(available_z[i] - z)
  IN  available_z[best]

\* layers[key] on a defaultdict(list): a key that is missing is added with
\* an empty list
defaultdict_getitem(layers, key) ==
  IF key \in DOMAIN layers
    THEN [layers |-> layers, value |-> layers[key]]
    ELSE [layers |-> [k \in DOMAIN layers \union {key} |->
                        IF k = key THEN <<>> ELSE layers[k]],
          value  |-> <<>>]

\* target_z = [float(z) for z in sys.argv[2:]], after min(available_z),
\* which raises ValueError when there are no layers
MainArgv ==
  /\ lstatus = "returned"
  /\ target_z.kind = "none"
  /\ \E heights \in SeqsUpTo(RequestHeights, MaxHeights) :
        /\ heights # <<>>
        /\ target_z' =
             IF DOMAIN positions_by_layer = {} THEN [kind |-> "raised"]
             ELSE [kind        |-> "heights",
                   available_z |-> sorted(DOMAIN positions_by_layer),
                   idx         |-> <<>>,
                   z           |-> heights]
  /\ UNCHANGED <<shown, parserVars, rasterVars, geomVars>>

\* one turn of the loop 'for z in target_z'
MainShow ==
  /\ target_z.kind = "heights"
  /\ Len(shown) < Len(target_z.z)
  /\ LET z         == target_z.z[Len(shown) + 1]
         closest_z == closest_z_of(target_z.available_z, z)
         got       == defaultdict_getitem(positions_by_layer, closest_z)
     IN  /\ positions_by_layer' = got.layers
         /\ rpoints' = got.value
         /\ rfn' = "ascii_plot_layer"
         /\ rres' = ascii_plot_layer(got.value)
         /\ shown' = Append(shown, [z |-> z, closest_z |-> closest_z])
  /\ UNCHANGED <<stream, status, current_pos, positions, lstatus,
                 lcurrent_pos, lrecorded, geomVars, target_z>>

MainNext ==
  SampleRead \/ SampleEndOfFile \/ MainTargetZ \/ MainArgv \/ MainShow

SpecMain == Init /\ [][MainNext]_vars

(***************************************************************************)
(* C22.  For every height main shows, the layer rendered is one whose key  *)
(* is at the least distance |key - z| of all the keys, the smallest such   *)
(* key on a tie; the points handed to ascii_plot_layer are the bucket of   *)
(* that key; and the lookups leave the set of layers as parse_gcode        *)
(* returned it.                                                            *)
(***************************************************************************)
C22_ClosestLayerShown ==
  /\ \A i \in 1..Len(shown) :
        /\ shown[i].z = target_z.z[i]
        /\ shown[i].closest_z \in DOMAIN positions_by_layer
        /\ \A k \in DOMAIN positions_by_layer :
              /\ Abs(shown[i].closest_z - shown[i].z) <= Abs(k - shown[i].z)
              /\ Abs(shown[i].closest_z - shown[i].z) = Abs(k - shown[i].z)
                   => shown[i].closest_z <= k
  /\ shown # <<>> =>
        /\ rfn = "ascii_plot_layer"
        /\ rpoints = positions_by_layer[shown[Len(shown)].closest_z]
        /\ rres.kind = "text" /\ rres.layer = rpoints
  /\ DOMAIN positions_by_layer
       = {round1(lrecorded[i][3]) : i \in 1..Len(lrecorded)}
  /\ \A k \in DOMAIN positions_by_layer :
        positions_by_layer[k] = XYOfKey(lrecorded, k)

\* the height 0.5 asked of layers at 0.0, 0.2, 0.4, 0.6, ...: 0.4 and 0.6
\* are as close, and the layer at 0.4 is shown, with its one point
C22_Witness ==
  /\ Len(shown) = 1
  /\ shown[1] = [z |-> 50, closest_z |-> 40]
  /\ 60 \in DOMAIN positions_by_layer
  /\ rpoints = positions_by_layer[40]
  /\ rpoints # positions_by_layer[60]

(***************************************************************************)
(* C21.  When several gaps of a layer, the wraparound gap counted as the   *)
(* last, share the maximal magnitude, the OPENING line of                  *)
(* plot_cross_section reports the first of them in ascending order of the  *)
(* sorted angles; and the start and the end of any reported gap are        *)
(* neighbours in the sorted order, with no data angle strictly between.    *)
(***************************************************************************)
\* the gaps of the sorted angles, the wraparound gap last
GapsWithWrap(angles) ==
  [k \in 1..Len(angles) |->
     IF k < Len(angles) THEN angles[k + 1] - angles[k] ELSE WrapGap(angles)]

C21_FirstOfTiedGaps ==
  (rfn = "plot_cross_section" /\ rres.kind = "text"
     /\ rres.opening.kind = "opening")
  => LET s     == AnglesSorted(rres.layer)
         gaps  == GapsWithWrap(s)
         tied  == {k \in 1..Len(s) : gaps[k] = SeqMax(gaps)}
         first == CHOOSE k \in tied : \A m \in tied : k <= m
         o     == rres.opening
     IN  /\ \E k \in 1..(Len(s) - 1) :
               o.gap_start = s[k] /\ o.gap_end = s[k + 1]
         /\ o.max_gap = o.gap_end - o.gap_start
         /\ \A k \in 1..Len(s) : ~(o.gap_start < s[k] /\ s[k] < o.gap_end)
         /\ Cardinality(tied) >= 2 =>
               /\ o.max_gap = SeqMax(gaps)
               /\ o.gap_start = s[first]
               /\ o.gap_end = s[first + 1]

\* points at 0, 135 and 270 degrees: the two gaps of 135 degrees tie above
\* the wraparound gap of 90, and the one from 0 to 135 is reported
C21_Witness ==
  /\ rfn = "plot_cross_section"
  /\ rres.kind = "text"
  /\ AnglesSorted(rres.layer) = <<0, 13500, 27000>>
  /\ rres.opening = [kind |-> "opening", max_gap |-> 13500,
                     gap_start |-> 0, gap_end |-> 13500]

(***************************************************************************)
(* C23.  Whenever a rasterizer returns a grid, the grid has exactly height *)
(* rows of exactly width cells, and each cell holds one glyph of the fixed *)
(* set: blank, data, out of tolerance, reference circle and the three axis *)
(* glyphs, whatever points were plotted.                                   *)
(***************************************************************************)
Glyphs == {" ", "#", "X", ".", "|", "-", "+"}

C23_GridShape ==
  rres.kind = "text" =>
    /\ DOMAIN rres.grid = 1..GridHeight
    /\ \A r \in 1..GridHeight :
          /\ DOMAIN rres.grid[r] = 1..GridWidth
          /\ \A c \in 1..GridWidth : rres.grid[r][c] \in Glyphs

\* a cross-section of 35 rows of 70 cells that shows every glyph of the
\* set, with a point drawn outside the window among its points
C23_Witness ==
  /\ rfn = "plot_cross_section"
  /\ rres.kind = "text"
  /\ Len(rres.grid) = 35 /\ Len(rres.grid[35]) = 70
  /\ \E k \in 1..Len(rres.cells) : ~InWindow(rres.cells[k])
  /\ \A g \in Glyphs :
        \E r \in 1..35 : \E c \in 1..70 : rres.grid[r][c] = g

====
